---- MODULE Spec2Model ----
(***************************************************************************)
(* Model of the api_fetch command of desktop/src-tauri/src/lib.rs: a       *)
(* generic HTTP fetch proxy that attaches three fixed headers to a request *)
(* and maps the response to an HttpResponse envelope or to an error        *)
(* string.                                                                 *)
(*                                                                         *)
(* Text is modelled as a sequence of tokens: a method name is the sequence *)
(* of its characters, a url is <<scheme, "://", host, path>>, an error     *)
(* message is the sequence of the pieces format! concatenates.  A body is  *)
(* a sequence of bytes on the wire and a sequence of code points once      *)
(* decoded.                                                                *)
(*                                                                         *)
(* The command calls reqwest::Client::new(), .send() and .text(); what     *)
(* those calls do with the request (redirect policy of the default client, *)
(* lossy decoding of the body) is part of the behaviour of the command and *)
(* is modelled at the line that makes the call.                            *)
(***************************************************************************)
EXTENDS Integers, Sequences, FiniteSets, TLC

(***************************************************************************)
(* Bounds of the model.                                                    *)
(***************************************************************************)
\* Number of concurrent invocations of the command (ConcSpec).
NumInv == 2
\* Longest response body, in bytes, the network delivers.
MaxBodyLen == 2

Invs == 1..NumInv
\* The invocation followed by the single-invocation specifications.
SoloInvs == {1}

NoVal == [tag |-> "none", val |-> <<>>]
OkVal(v) == [tag |-> "Ok", val |-> v]
ErrVal(e) == [tag |-> "Err", val |-> e]
Some(v) == [tag |-> "Some", val |-> v]
None == [tag |-> "None", val |-> <<>>]

(***************************************************************************)
(* Header values and method names.                                         *)
(***************************************************************************)
CONTENT_TYPE == "content-type"
ORIGIN == "origin"
REFERER == "referer"

ApplicationJson == <<"application/json">>
OriginValue == <<"https", "://", "nagusamecs.github.io">>
RefererValue == <<"https", "://", "nagusamecs.github.io", "/OpenNotesAPI/">>

GET == <<"G", "E", "T">>
POST == <<"P", "O", "S", "T">>
PUT == <<"P", "U", "T">>
DELETE == <<"D", "E", "L", "E", "T", "E">>
PATCH == <<"P", "A", "T", "C", "H">>
HEAD == <<"H", "E", "A", "D">>
OPTIONS == <<"O", "P", "T", "I", "O", "N", "S">>

\* HeaderMap::insert: the value replaces any value the name had.
HeaderInsert(h, n, v) ==
    [x \in (DOMAIN h) \cup {n} |-> IF x = n THEN v ELSE h[x]]

\* HeaderMap::remove.
HeaderRemove(h, n) == [x \in (DOMAIN h) \ {n} |-> h[x]]

EmptyHeaders == [x \in {} |-> <<>>]

\* As FixedHeaders, with the referer cut to the origin.
FixedHeadersShortReferer ==
    HeaderInsert(
        HeaderInsert(
            HeaderInsert(EmptyHeaders, CONTENT_TYPE, ApplicationJson),
            ORIGIN, OriginValue),
        REFERER, OriginValue)

\* lines 15-18: the header map every invocation builds.
FixedHeaders ==
    HeaderInsert(
        HeaderInsert(
            HeaderInsert(EmptyHeaders, CONTENT_TYPE, ApplicationJson),
            ORIGIN, OriginValue),
        REFERER, RefererValue)

(***************************************************************************)
(* str::to_uppercase: an ASCII letter maps to its capital, a character     *)
(* with a special upper-case mapping to the characters of that mapping     *)
(* (LongS, U+017F, to S; LigatureST, U+FB05, to S T), every other          *)
(* character drawn here to itself.                                         *)
(***************************************************************************)
LowerLetters ==
    <<"a", "b", "c", "d", "e", "f", "g", "h", "i", "j", "k", "l", "m",
      "n", "o", "p", "q", "r", "s", "t", "u", "v", "w", "x", "y", "z">>
UpperLetters ==
    <<"A", "B", "C", "D", "E", "F", "G", "H", "I", "J", "K", "L", "M",
      "N", "O", "P", "Q", "R", "S", "T", "U", "V", "W", "X", "Y", "Z">>
LongS == "U+017F"
LigatureST == "U+FB05"

ToUpperChar(c) ==
    IF \E k \in 1..26 : LowerLetters[k] = c
    THEN UpperLetters[CHOOSE k \in 1..26 : LowerLetters[k] = c]
    ELSE c

\* char::to_uppercase: the characters c maps to.
UpperOf(c) ==
    IF c = LongS THEN <<"S">>
    ELSE IF c = LigatureST THEN <<"S", "T">>
    ELSE <<ToUpperChar(c)>>

\* As to_uppercase, with the case left as it is.
to_uppercase_identity(s) == s

RECURSIVE to_uppercase(_)
to_uppercase(s) ==
    IF s = <<>> THEN <<>> ELSE UpperOf(Head(s)) \o to_uppercase(Tail(s))

\* line 20: method.unwrap_or_else(|| "GET".to_string())
method_str(m) == IF m.tag = "Some" THEN m.val ELSE GET

\* As SelectMethod, with an arm for PATCH.
SelectMethodWithPatch(m) ==
    LET up == to_uppercase(method_str(m))
    IN  CASE up = POST -> POST
          [] up = PUT -> PUT
          [] up = DELETE -> DELETE
          [] up = PATCH -> PATCH
          [] OTHER -> GET

\* lines 22-27: the match on the upper-cased method name.
SelectMethod(m) ==
    LET up == to_uppercase(method_str(m))
    IN  CASE up = POST -> POST
          [] up = PUT -> PUT
          [] up = DELETE -> DELETE
          [] OTHER -> GET

(***************************************************************************)
(* Urls.  client.get(&url) parses the text; a text that is no absolute     *)
(* url makes the builder carry an error, which send() returns without      *)
(* touching the network, and so does a scheme other than http or https.    *)
(***************************************************************************)
UrlApi == <<"https", "://", "example.com", "/api">>
UrlNotAUrl == <<"not a url">>
UrlFtp == <<"ftp", "://", "example.com", "/file">>
UrlMoved == <<"https", "://", "example.com", "/moved">>
UrlPlain == <<"http", "://", "example.com", "/plain">>

IsAbsoluteUrl(u) == Len(u) >= 3 /\ u[2] = "://" /\ u[1] # "" /\ u[3] # ""
Scheme(u) == u[1]
IsHttpUrl(u) == IsAbsoluteUrl(u) /\ Scheme(u) \in {"http", "https"}

BuilderError == <<"builder error">>

\* lines 22-27: client.post/put/delete/get(&url).
BuildRequest(u, m) ==
    [method |-> SelectMethod(m),
     url |-> IF IsHttpUrl(u) THEN OkVal(u) ELSE ErrVal(BuilderError)]

(***************************************************************************)
(* Status codes.  is_success is 200 <= code < 300.                         *)
(***************************************************************************)
\* As is_success, with 300 counted in.
is_success_upto300(code) == 200 <= code /\ code <= 300

is_success(code) == 200 <= code /\ code < 300

\* The statuses on which the client looks for a Location to follow.
RedirectStatuses == {301, 302, 303, 307, 308}
\* 301 Moved Permanently and 302 Found.
MovedStatuses == {301, 302}

\* Redirect policy of reqwest::Client::new(): at most this many redirects.
MaxRedirects == 10

(***************************************************************************)
(* Response::text(): the bytes are decoded as UTF-8 with every malformed   *)
(* sequence replaced by U+FFFD; decoding never fails.  Bytes are drawn     *)
(* from ASCII, the two-byte lead 0xC3 and the continuation 0xA9.           *)
(***************************************************************************)
REPLACEMENT_CHARACTER == 65533

IsAscii(b) == b < 128
IsLead2(b) == 194 <= b /\ b <= 223
IsCont(b) == 128 <= b /\ b <= 191

RECURSIVE DecodeLossy(_)
DecodeLossy(bytes) ==
    IF bytes = <<>> THEN <<>>
    ELSE IF IsAscii(bytes[1]) THEN <<bytes[1]>> \o DecodeLossy(Tail(bytes))
    ELSE IF IsLead2(bytes[1]) /\ Len(bytes) >= 2 /\ IsCont(bytes[2])
         THEN <<(bytes[1] - 192) * 64 + (bytes[2] - 128)>>
              \o DecodeLossy(Tail(Tail(bytes)))
    ELSE <<REPLACEMENT_CHARACTER>> \o DecodeLossy(Tail(bytes))

\* lines 33 and 37: format!("<prefix>{}", e).
RequestFailedPrefix == "Request failed: "
ReadBodyPrefix == "Failed to read body: "
Format(prefix, e) == <<prefix>> \o e

\* line 39: HttpResponse { status, body, ok }
HttpResponse(s, b, o) == [status |-> s, body |-> b, ok |-> o]

(***************************************************************************)
(* What the caller and the network can supply.                             *)
(***************************************************************************)
Recognized == {GET, POST, PUT, DELETE}

ToLowerChar(c) ==
    IF \E k \in 1..26 : UpperLetters[k] = c
    THEN LowerLetters[CHOOSE k \in 1..26 : UpperLetters[k] = c]
    ELSE c

\* Every spelling of name in upper and lower case letters.
RECURSIVE CaseVariants(_)
CaseVariants(name) ==
    IF name = <<>> THEN {<<>>}
    ELSE {<<c>> \o r : c \in {name[1], ToLowerChar(name[1])},
                       r \in CaseVariants(Tail(name))}

AsciiSpellings == UNION {CaseVariants(n) : n \in Recognized}

\* Spellings of POST with the long s and with the st ligature.
SpecialSpellings ==
    {<<"p", "o", LongS, "t">>, <<"P", "O", LongS, "T">>,
     <<"p", "o", LigatureST>>}

Unrecognized ==
    {PATCH, HEAD, OPTIONS, <<>>, <<"p", "a", "t", "c", "h">>,
     <<"G", "E", "T", "S">>, <<"P", "O">>, <<"g", "e", "t", " ">>,
     <<"D", "E", "L", "E", "T">>, <<"p", "u", LongS>>, <<LigatureST>>}

\* Method inputs of the method-selection specification.
AllMethodInputs ==
    {None}
    \cup {Some(v) : v \in AsciiSpellings \cup SpecialSpellings \cup Unrecognized}

\* Method inputs of the single-invocation specification.
MethodInputs ==
    {None, Some(GET), Some(<<"p", "o", "s", "t">>), Some(<<"P", "u", "t">>),
     Some(DELETE), Some(PATCH), Some(<<>>)}

Urls == {UrlApi, UrlNotAUrl, UrlFtp}
Locations == {UrlMoved, UrlPlain}
Statuses ==
    {100, 199, 200, 299, 300, 301, 302, 303, 307, 308, 404, 500, 599, 999}

BodyBytes == {123, 125, 195, 169}
Bodies == UNION {[1..n -> BodyBytes] : n \in 0..MaxBodyLen}

SendErrors == {<<"error sending request">>, <<"connection reset">>}
BodyErrors == {<<"error decoding response body">>, <<"connection reset">>}
TooManyRedirects == <<"error following redirect", "too many redirects">>

\* The reduced environment of the concurrent specification.
ConcUrls == {UrlApi, UrlNotAUrl}
ConcMethods == {None, Some(<<"p", "o", "s", "t">>)}
ConcStatuses == {200, 404}
ConcBodies == {<<123>>, <<195>>}
ConcSendErrors == {<<"connection reset">>}
ConcBodyErrors == {<<"connection reset">>}

(***************************************************************************)
(* State: one entry per invocation of the command.                         *)
(***************************************************************************)
VARIABLES
    pc,               \* position of the invocation in api_fetch
    url,              \* argument url
    method,           \* argument method: None or Some(text)
    headers,          \* local headers (lines 15-18)
    request_builder,  \* local request_builder (lines 22-27)
    wire,             \* the request in flight on the network, if any
    sent,             \* requests put on the network so far
    followed,         \* redirects the client followed so far
    response,         \* output of the send future (lines 29-33)
    status,           \* local status (line 35); 0 before it is taken
    ok,               \* local ok (line 36)
    bodyIn,           \* what the network delivered for the body
    textCalls,        \* calls of response.text() (line 37)
    result            \* what the command returned

vars ==
    <<pc, url, method, headers, request_builder, wire, sent, followed,
      response, status, ok, bodyIn, textCalls, result>>

Init ==
    /\ pc = [i \in Invs |-> "idle"]
    /\ url = [i \in Invs |-> <<>>]
    /\ method = [i \in Invs |-> None]
    /\ headers = [i \in Invs |-> EmptyHeaders]
    /\ request_builder = [i \in Invs |-> NoVal]
    /\ wire = [i \in Invs |-> NoVal]
    /\ sent = [i \in Invs |-> 0]
    /\ followed = [i \in Invs |-> 0]
    /\ response = [i \in Invs |-> NoVal]
    /\ status = [i \in Invs |-> 0]
    /\ ok = [i \in Invs |-> FALSE]
    /\ bodyIn = [i \in Invs |-> NoVal]
    /\ textCalls = [i \in Invs |-> 0]
    /\ result = [i \in Invs |-> NoVal]

\* lines 12-27: the arguments are bound, the header map and the request
\* builder are made.
Invoke(i, U, M) ==
    /\ pc[i] = "idle"
    /\ \E u \in U, m \in M :
         /\ url' = [url EXCEPT ![i] = u]
         /\ method' = [method EXCEPT ![i] = m]
         /\ request_builder' =
                [request_builder EXCEPT ![i] = OkVal(BuildRequest(u, m))]
    /\ headers' = [headers EXCEPT ![i] = FixedHeaders]
    /\ pc' = [pc EXCEPT ![i] = "built"]
    /\ UNCHANGED <<wire, sent, followed, response, status, ok, bodyIn, textCalls,
                   result>>

\* lines 29-31: request_builder.headers(headers).send().  A builder that
\* carries an error resolves the send future at once, with no request made.
Dispatch(i) ==
    /\ pc[i] = "built"
    /\ LET rb == request_builder[i].val
       IN  IF rb.url.tag = "Err"
           THEN /\ response' = [response EXCEPT ![i] = ErrVal(rb.url.val)]
                /\ UNCHANGED <<wire, sent>>
           ELSE /\ wire' = [wire EXCEPT ![i] =
                              OkVal([method |-> rb.method,
                                     url |-> rb.url.val,
                                     headers |-> headers[i]])]
                /\ sent' = [sent EXCEPT ![i] = 1]
                /\ UNCHANGED response
    /\ pc' = [pc EXCEPT ![i] = "awaitSend"]
    /\ UNCHANGED <<url, method, headers, request_builder, followed, status, ok,
                   bodyIn, textCalls, result>>

InFlight(i) == pc[i] = "awaitSend" /\ wire[i].tag = "Ok" /\ response[i].tag = "none"

\* The network answers the request in flight with a response the client
\* hands back: any status, a redirect status without a usable Location
\* included.
NetRespond(i, S) ==
    /\ InFlight(i)
    /\ \E s \in S : response' = [response EXCEPT ![i] = OkVal(s)]
    /\ wire' = [wire EXCEPT ![i] = NoVal]
    /\ UNCHANGED <<pc, url, method, headers, request_builder, sent, followed,
                   status, ok, bodyIn, textCalls, result>>

\* The referer the client derives on a redirect from prev to next: none on
\* a downgrade from https to http.
make_referer(next, prev) ==
    IF Scheme(next) = "http" /\ Scheme(prev) = "https"
    THEN NoVal
    ELSE OkVal(prev)

\* Whether the client, on following a redirect with status s, turns the
\* request into a GET and drops its payload headers: always after a 303,
\* never after a 307 or 308, and after a 301 or 302 either for every
\* request (legacy) or for a POST only, depending on the release of the
\* client the command is built against.
DropsPayload(req, s, legacy) ==
    \/ s = 303
    \/ s \in MovedStatuses /\ (legacy \/ req.method = POST)

\* The request the client makes on following a redirect with status s to
\* loc.
FollowRedirect(req, s, loc, legacy) ==
    LET drop == DropsPayload(req, s, legacy)
        h1 == IF drop THEN HeaderRemove(req.headers, CONTENT_TYPE)
              ELSE req.headers
        m1 == IF drop /\ req.method # HEAD THEN GET ELSE req.method
        ref == make_referer(loc, req.url)
        h2 == IF ref.tag = "Ok" THEN HeaderInsert(h1, REFERER, ref.val) ELSE h1
    IN  [method |-> m1, url |-> loc, headers |-> h2]

\* The redirect policy: follow while no more than MaxRedirects redirects
\* were met.
PolicyFollows(previous) == previous <= MaxRedirects

\* The network answers the request in flight with a redirect the client
\* acts on inside send(): it follows it with a new request, or gives up.
NetRedirect(i, S, L) ==
    /\ InFlight(i)
    /\ \E s \in S \cap RedirectStatuses, loc \in L, legacy \in BOOLEAN :
         IF PolicyFollows(sent[i])
         THEN /\ wire' = [wire EXCEPT ![i] =
                            OkVal(FollowRedirect(wire[i].val, s, loc, legacy))]
              /\ sent' = [sent EXCEPT ![i] = sent[i] + 1]
              /\ followed' = [followed EXCEPT ![i] = followed[i] + 1]
              /\ UNCHANGED response
         ELSE /\ response' = [response EXCEPT ![i] = ErrVal(TooManyRedirects)]
              /\ wire' = [wire EXCEPT ![i] = NoVal]
              /\ UNCHANGED <<sent, followed>>
    /\ UNCHANGED <<pc, url, method, headers, request_builder, status, ok,
                   bodyIn, textCalls, result>>

\* The request fails in transit.
NetFail(i, E) ==
    /\ InFlight(i)
    /\ \E e \in E : response' = [response EXCEPT ![i] = ErrVal(e)]
    /\ wire' = [wire EXCEPT ![i] = NoVal]
    /\ UNCHANGED <<pc, url, method, headers, request_builder, sent, followed,
                   status, ok, bodyIn, textCalls, result>>

\* As SendFailed, with one more attempt after the first failure.
SendFailedRetry(i) ==
    /\ pc[i] = "awaitSend"
    /\ response[i].tag = "Err"
    /\ IF sent[i] = 1
       THEN /\ wire' = [wire EXCEPT ![i] =
                          OkVal([method |-> request_builder[i].val.method,
                                 url |-> url[i],
                                 headers |-> headers[i]])]
            /\ sent' = [sent EXCEPT ![i] = sent[i] + 1]
            /\ response' = [response EXCEPT ![i] = NoVal]
            /\ UNCHANGED <<pc, result>>
       ELSE /\ result' = [result EXCEPT ![i] =
                            ErrVal(Format(RequestFailedPrefix, response[i].val))]
            /\ pc' = [pc EXCEPT ![i] = "done"]
            /\ UNCHANGED <<wire, sent, response>>
    /\ UNCHANGED <<url, method, headers, request_builder, followed, status, ok,
                   bodyIn, textCalls>>

\* As SendFailed, with an empty envelope returned for the failure.
SendFailedEnvelope(i) ==
    /\ pc[i] = "awaitSend"
    /\ response[i].tag = "Err"
    /\ result' = [result EXCEPT ![i] = OkVal(HttpResponse(0, <<>>, FALSE))]
    /\ pc' = [pc EXCEPT ![i] = "done"]
    /\ UNCHANGED <<url, method, headers, request_builder, wire, sent, followed,
                   response, status, ok, bodyIn, textCalls>>

\* lines 32-33, send failed: map_err and ? return the error.
SendFailed(i) ==
    /\ pc[i] = "awaitSend"
    /\ response[i].tag = "Err"
    /\ result' = [result EXCEPT ![i] =
                    ErrVal(Format(RequestFailedPrefix, response[i].val))]
    /\ pc' = [pc EXCEPT ![i] = "done"]
    /\ UNCHANGED <<url, method, headers, request_builder, wire, sent, followed,
                   response, status, ok, bodyIn, textCalls>>

\* As TakeStatus, with a status that is no success turned into an error.
TakeStatusStrict(i) ==
    /\ pc[i] = "awaitSend"
    /\ response[i].tag = "Ok"
    /\ status' = [status EXCEPT ![i] = response[i].val]
    /\ ok' = [ok EXCEPT ![i] = is_success(response[i].val)]
    /\ IF is_success(response[i].val)
       THEN /\ textCalls' = [textCalls EXCEPT ![i] = textCalls[i] + 1]
            /\ pc' = [pc EXCEPT ![i] = "awaitBody"]
            /\ UNCHANGED result
       ELSE /\ result' = [result EXCEPT ![i] =
                            ErrVal(Format(RequestFailedPrefix, <<"status">>))]
            /\ pc' = [pc EXCEPT ![i] = "done"]
            /\ UNCHANGED textCalls
    /\ UNCHANGED <<url, method, headers, request_builder, wire, sent, followed,
                   response, bodyIn>>

\* lines 32-37, send succeeded: status and ok are taken, text() is called.
TakeStatus(i) ==
    /\ pc[i] = "awaitSend"
    /\ response[i].tag = "Ok"
    /\ status' = [status EXCEPT ![i] = response[i].val]
    /\ ok' = [ok EXCEPT ![i] = is_success(response[i].val)]
    /\ textCalls' = [textCalls EXCEPT ![i] = textCalls[i] + 1]
    /\ pc' = [pc EXCEPT ![i] = "awaitBody"]
    /\ UNCHANGED <<url, method, headers, request_builder, wire, sent, followed,
                   response, bodyIn, result>>

\* The body arrives in full.
NetBody(i, B) ==
    /\ pc[i] = "awaitBody"
    /\ bodyIn[i].tag = "none"
    /\ \E bytes \in B : bodyIn' = [bodyIn EXCEPT ![i] = OkVal(bytes)]
    /\ UNCHANGED <<pc, url, method, headers, request_builder, wire, sent,
                   followed, response, status, ok, textCalls, result>>

\* The body stream fails.
NetBodyFail(i, E) ==
    /\ pc[i] = "awaitBody"
    /\ bodyIn[i].tag = "none"
    /\ \E e \in E : bodyIn' = [bodyIn EXCEPT ![i] = ErrVal(e)]
    /\ UNCHANGED <<pc, url, method, headers, request_builder, wire, sent,
                   followed, response, status, ok, textCalls, result>>

\* Output of response.text() for what the network delivered.
text(delivered) ==
    IF delivered.tag = "Ok"
    THEN OkVal(DecodeLossy(delivered.val))
    ELSE ErrVal(delivered.val)

\* As Return, with the prefix of the send failure on a read failure.
ReturnWrongPrefix(i) ==
    /\ pc[i] = "awaitBody"
    /\ bodyIn[i].tag # "none"
    /\ LET body == text(bodyIn[i])
       IN  result' = [result EXCEPT ![i] =
                        IF body.tag = "Err"
                        THEN ErrVal(Format(RequestFailedPrefix, body.val))
                        ELSE OkVal(HttpResponse(status[i], body.val, ok[i]))]
    /\ pc' = [pc EXCEPT ![i] = "done"]
    /\ UNCHANGED <<url, method, headers, request_builder, wire, sent, followed,
                   response, status, ok, bodyIn, textCalls>>

\* As Return, with status and ok kept in one slot all invocations share.
ReturnShared(i) ==
    /\ pc[i] = "awaitBody"
    /\ bodyIn[i].tag # "none"
    /\ LET body == text(bodyIn[i])
           slot == CHOOSE j \in Invs : \A k \in Invs : j <= k
       IN  result' = [result EXCEPT ![i] =
                        IF body.tag = "Err"
                        THEN ErrVal(Format(ReadBodyPrefix, body.val))
                        ELSE OkVal(HttpResponse(status[slot], body.val,
                                                ok[slot]))]
    /\ pc' = [pc EXCEPT ![i] = "done"]
    /\ UNCHANGED <<url, method, headers, request_builder, wire, sent, followed,
                   response, status, ok, bodyIn, textCalls>>

\* As Return, with the body read again after a read failure.
ReturnRetryRead(i) ==
    /\ pc[i] = "awaitBody"
    /\ bodyIn[i].tag # "none"
    /\ LET body == text(bodyIn[i])
       IN  IF body.tag = "Err" /\ textCalls[i] = 1
           THEN /\ bodyIn' = [bodyIn EXCEPT ![i] = NoVal]
                /\ textCalls' = [textCalls EXCEPT ![i] = textCalls[i] + 1]
                /\ UNCHANGED <<pc, result>>
           ELSE /\ result' = [result EXCEPT ![i] =
                                IF body.tag = "Err"
                                THEN ErrVal(Format(ReadBodyPrefix, body.val))
                                ELSE OkVal(HttpResponse(status[i], body.val,
                                                        ok[i]))]
                /\ pc' = [pc EXCEPT ![i] = "done"]
                /\ UNCHANGED <<bodyIn, textCalls>>
    /\ UNCHANGED <<url, method, headers, request_builder, wire, sent, followed,
                   response, status, ok>>

\* lines 37-39: the text future resolves; the error or the envelope is
\* returned.
Return(i) ==
    /\ pc[i] = "awaitBody"
    /\ bodyIn[i].tag # "none"
    /\ LET body == text(bodyIn[i])
       IN  result' = [result EXCEPT ![i] =
                        IF body.tag = "Err"
                        THEN ErrVal(Format(ReadBodyPrefix, body.val))
                        ELSE OkVal(HttpResponse(status[i], body.val, ok[i]))]
    /\ pc' = [pc EXCEPT ![i] = "done"]
    /\ UNCHANGED <<url, method, headers, request_builder, wire, sent, followed,
                   response, status, ok, bodyIn, textCalls>>

(***************************************************************************)
(* Specifications.                                                         *)
(***************************************************************************)
\* One invocation, the full environment.
Next ==
    \E i \in SoloInvs :
        \/ Invoke(i, Urls, MethodInputs)
        \/ Dispatch(i)
        \/ NetRespond(i, Statuses)
        \/ NetRedirect(i, Statuses, Locations)
        \/ NetFail(i, SendErrors)
        \/ SendFailed(i)
        \/ TakeStatus(i)
        \/ NetBody(i, Bodies)
        \/ NetBodyFail(i, BodyErrors)
        \/ Return(i)

Spec == Init /\ [][Next]_vars

\* One invocation up to the dispatch of its request, every spelling of the
\* method.
MethodNext ==
    \E i \in SoloInvs :
        \/ Invoke(i, Urls, AllMethodInputs)
        \/ Dispatch(i)

MethodSpec == Init /\ [][MethodNext]_vars

\* NumInv invocations interleaved, a reduced environment whose servers do
\* not redirect.
ConcNext ==
    \E i \in Invs :
        \/ Invoke(i, ConcUrls, ConcMethods)
        \/ Dispatch(i)
        \/ NetRespond(i, ConcStatuses)
        \/ NetFail(i, ConcSendErrors)
        \/ SendFailed(i)
        \/ TakeStatus(i)
        \/ NetBody(i, ConcBodies)
        \/ NetBodyFail(i, ConcBodyErrors)
        \/ Return(i)

ConcSpec == Init /\ [][ConcNext]_vars

\* The runtime resumes a command whose awaited future is ready; the
\* network owes no answer.
Fairness ==
    \A i \in SoloInvs :
        /\ WF_vars(Dispatch(i))
        /\ WF_vars(SendFailed(i))
        /\ WF_vars(TakeStatus(i))
        /\ WF_vars(Return(i))

FairSpec == Init /\ [][Next]_vars /\ Fairness

(***************************************************************************)
(* Properties.                                                             *)
(***************************************************************************)
Done(i) == pc[i] = "done"
Envelope(i) == result[i].tag = "Ok"
TransportFailure(i) ==
    result[i].tag = "Err" /\ Head(result[i].val) = RequestFailedPrefix
DecodeFailure(i) ==
    result[i].tag = "Err" /\ Head(result[i].val) = ReadBodyPrefix

\* C1: whenever api_fetch returns an envelope, its ok is true exactly when
\* its status lies in 200..299.
C1_OkIffStatus2xx ==
    \A i \in Invs :
        Envelope(i) =>
            (result[i].val.ok <=>
                (200 <= result[i].val.status /\ result[i].val.status <= 299))

C1_Witness ==
    \E i \in Invs :
        Envelope(i) /\ result[i].val.status = 299 /\ result[i].val.ok

\* C2: a response that was received and whose body was read yields the
\* envelope with the received status, the received body text and, for a
\* 4xx or 5xx status, ok false; an error is returned only when the send
\* or the body read failed.
C2_ReceivedResponseYieldsEnvelope ==
    \A i \in Invs :
        Done(i) =>
            /\ (response[i].tag = "Ok" /\ bodyIn[i].tag = "Ok") =>
                   /\ Envelope(i)
                   /\ result[i].val.status = response[i].val
                   /\ result[i].val.body = DecodeLossy(bodyIn[i].val)
                   /\ (\A k \in 1..Len(bodyIn[i].val) :
                           IsAscii(bodyIn[i].val[k]))
                          => result[i].val.body = bodyIn[i].val
                   /\ (400 <= response[i].val /\ response[i].val <= 599)
                          => ~result[i].val.ok
            /\ result[i].tag = "Err" =>
                   (response[i].tag = "Err" \/ bodyIn[i].tag = "Err")

C2_Witness ==
    \E i \in Invs :
        /\ Done(i)
        /\ response[i] = OkVal(404)
        /\ Envelope(i)
        /\ result[i].val = HttpResponse(404, <<123, 125>>, FALSE)

\* Case folding of a character: the lower-case letter, s for LongS, s t
\* for LigatureST.
FoldOf(c) ==
    IF c = LongS THEN <<"s">>
    ELSE IF c = LigatureST THEN <<"s", "t">>
    ELSE <<ToLowerChar(c)>>

RECURSIVE CaseFold(_)
CaseFold(s) == IF s = <<>> THEN <<>> ELSE FoldOf(Head(s)) \o CaseFold(Tail(s))

\* Whether text is one of the four names up to case.
MatchesIgnoringCase(v) == \E n \in Recognized : CaseFold(v) = CaseFold(n)

\* C3: with method absent, or a method text that is not GET, POST, PUT or
\* DELETE up to case, the request built and sent is the GET request an
\* invocation with method "GET" sends.
C3_MethodDefaulting ==
    \A i \in Invs :
        (/\ pc[i] # "idle"
         /\ (method[i].tag = "None" \/ ~MatchesIgnoringCase(method[i].val)))
        => /\ request_builder[i].val.method = GET
           /\ request_builder[i].val = BuildRequest(url[i], Some(GET))
           /\ wire[i].tag = "Ok" =>
                  wire[i].val = [method |-> GET, url |-> url[i],
                                 headers |-> FixedHeaders]

C3_Witness ==
    \E i \in Invs :
        /\ method[i] = Some(PATCH)
        /\ wire[i].tag = "Ok"
        /\ wire[i].val.method = GET

\* C4: every spelling of GET, POST, PUT or DELETE in upper and lower case
\* letters selects the method of that name, and the four names select four
\* different methods.
C4_CaseInsensitiveMatch ==
    /\ \A i \in Invs :
           (pc[i] # "idle" /\ method[i].tag = "Some") =>
               \A n \in Recognized :
                   method[i].val \in CaseVariants(n) =>
                       /\ request_builder[i].val.method = n
                       /\ wire[i].tag = "Ok" => wire[i].val.method = n
    /\ Cardinality({SelectMethod(Some(n)) : n \in Recognized}) = 4

C4_Witness ==
    \E i \in Invs :
        /\ method[i] = Some(<<"P", "o", "s", "t">>)
        /\ wire[i].tag = "Ok"
        /\ wire[i].val.method = POST

\* C5: every request on the network carries the three headers with
\* exactly the fixed values, whatever the url and the method.
C5_EveryRequestFixedHeaders ==
    \A i \in Invs :
        wire[i].tag = "Ok" => wire[i].val.headers = FixedHeaders

\* C6 as stated: an invocation that has ended has issued exactly one
\* request.
C6_ExactlyOneRequest ==
    \A i \in Invs : Done(i) => sent[i] = 1

\* C6 amended: an invocation calls send once; that issues no request when
\* the url is no absolute http or https url, and otherwise one request and
\* one more for each redirect the client follows, which its policy limits
\* to MaxRedirects.  Nothing is sent after the invocation has ended.
C6_OneRequestPlusRedirects ==
    \A i \in Invs :
        /\ pc[i] \in {"idle", "built"} => sent[i] = 0
        /\ pc[i] \notin {"idle", "built"} =>
               /\ ~IsHttpUrl(url[i]) => sent[i] = 0
               /\ IsHttpUrl(url[i]) => sent[i] = 1 + followed[i]
        /\ followed[i] <= MaxRedirects
        /\ wire[i].tag = "Ok" => pc[i] = "awaitSend"

C6_Witness ==
    \E i \in Invs : Done(i) /\ sent[i] = 3 /\ followed[i] = 2 /\ Envelope(i)

\* C7: when the send fails, api_fetch returns "Request failed: " followed
\* by the send error, never an envelope, and attempts no body read.
C7_TransportFailure ==
    \A i \in Invs :
        (Done(i) /\ response[i].tag = "Err") =>
            /\ ~Envelope(i)
            /\ TransportFailure(i)
            /\ Tail(result[i].val) = response[i].val
            /\ textCalls[i] = 0
            /\ bodyIn[i].tag = "none"

C7_Witness ==
    \E i \in Invs :
        /\ Done(i)
        /\ url[i] = UrlApi
        /\ response[i] = ErrVal(<<"error sending request">>)
        /\ TransportFailure(i)

\* Whether bytes are well-formed UTF-8 (one- and two-byte sequences).
RECURSIVE ValidUtf8(_)
ValidUtf8(bytes) ==
    IF bytes = <<>> THEN TRUE
    ELSE IF bytes[1] < 128 THEN ValidUtf8(Tail(bytes))
    ELSE /\ Len(bytes) >= 2
         /\ bytes[1] \in 194..223
         /\ bytes[2] \in 128..191
         /\ ValidUtf8(Tail(Tail(bytes)))

\* C8 as stated: a response whose body is not valid text yields the
\* decode-failure error and no envelope.
C8_InvalidTextYieldsError ==
    \A i \in Invs :
        (Done(i) /\ bodyIn[i].tag = "Ok" /\ ~ValidUtf8(bodyIn[i].val)) =>
            DecodeFailure(i)

\* C8 amended: when a response is received but reading its body fails,
\* api_fetch returns "Failed to read body: " followed by the read error, a
\* text no transport failure gives, and no envelope; a body that was read
\* and is not valid text is returned in the envelope, each malformed
\* sequence replaced by U+FFFD.
C8_ReadFailure ==
    \A i \in Invs :
        Done(i) =>
            /\ bodyIn[i].tag = "Err" =>
                   /\ ~Envelope(i)
                   /\ DecodeFailure(i)
                   /\ Tail(result[i].val) = bodyIn[i].val
                   /\ \A e \in SendErrors \cup BodyErrors
                              \cup {BuilderError, TooManyRedirects} :
                          result[i].val # Format(RequestFailedPrefix, e)
            /\ (bodyIn[i].tag = "Ok" /\ ~ValidUtf8(bodyIn[i].val)) =>
                   /\ Envelope(i)
                   /\ \E k \in 1..Len(result[i].val.body) :
                          result[i].val.body[k] = REPLACEMENT_CHARACTER

C8_Witness ==
    \E i \in Invs :
        /\ Done(i)
        /\ status[i] = 200
        /\ bodyIn[i] = ErrVal(<<"connection reset">>)
        /\ DecodeFailure(i)

\* The result of an invocation that runs alone on url u and method m, its
\* send resolved to r and its body delivery to b.
Alone(u, m, r, b) ==
    IF ~IsHttpUrl(u)
    THEN ErrVal(<<RequestFailedPrefix>> \o BuilderError)
    ELSE IF r.tag = "Err" THEN ErrVal(<<RequestFailedPrefix>> \o r.val)
    ELSE IF b.tag = "Err" THEN ErrVal(<<ReadBodyPrefix>> \o b.val)
    ELSE OkVal([status |-> r.val, body |-> DecodeLossy(b.val),
                ok |-> r.val \in 200..299])

\* All the state of invocation i.
View(i) ==
    <<pc[i], url[i], method[i], headers[i], request_builder[i], wire[i],
      sent[i], followed[i], response[i], status[i], ok[i], bodyIn[i],
      textCalls[i], result[i]>>

\* C9: under every interleaving of the steps of the invocations, the
\* result of each is the one it gives alone on its own url, method and
\* network answers, and no step touches the state of two invocations.
C9_Independent ==
    /\ [](\A i \in Invs :
              Done(i) =>
                  result[i] = Alone(url[i], method[i], response[i], bodyIn[i]))
    /\ [][\A i, j \in Invs :
              i # j => (View(i)' = View(i) \/ View(j)' = View(j))]_vars

C9_Witness ==
    \E i, j \in Invs :
        /\ i # j
        /\ pc[i] = "awaitBody" /\ bodyIn[i].tag = "none"
        /\ Done(j) /\ Envelope(j)
        /\ status[i] # status[j]
        /\ method[i] # method[j]

Steps ==
    {<<"idle", "built">>, <<"built", "awaitSend">>,
     <<"awaitSend", "awaitBody">>, <<"awaitSend", "done">>,
     <<"awaitBody", "done">>}

\* C10: an invocation moves forward only: dispatch, then the body read
\* once a response has arrived, then one terminal outcome, after which it
\* sends and reads nothing more.  It ends only on what the network
\* answered, and once the send or the body read is answered it goes on to
\* the next step.
C10_FixedOrder ==
    /\ [][\A i \in Invs :
              /\ pc'[i] # pc[i] => <<pc[i], pc'[i]>> \in Steps
              /\ Done(i) => View(i)' = View(i)]_vars
    /\ [](\A i \in Invs :
              /\ textCalls[i] <= 1
              /\ textCalls[i] = 1 <=>
                     (pc[i] = "awaitBody" \/ (Done(i) /\ response[i].tag = "Ok"))
              /\ pc[i] = "awaitBody" => (response[i].tag = "Ok" /\ sent[i] >= 1)
              /\ Done(i) <=> result[i].tag # "none"
              /\ Done(i) =>
                     /\ response[i].tag # "none"
                     /\ wire[i].tag = "none"
                     /\ response[i].tag = "Ok" => bodyIn[i].tag # "none"
                     /\ Envelope(i) \/ TransportFailure(i) \/ DecodeFailure(i)
                     /\ ~(TransportFailure(i) /\ DecodeFailure(i)))
    /\ \A i \in SoloInvs :
           /\ (pc[i] = "awaitSend" /\ response[i].tag # "none")
                  ~> (pc[i] \in {"awaitBody", "done"})
           /\ (pc[i] = "awaitBody" /\ bodyIn[i].tag # "none") ~> Done(i)

C10_Witness ==
    \E i \in Invs :
        /\ Done(i)
        /\ followed[i] = 1
        /\ DecodeFailure(i)

====
